---- MODULE Spec2Model ----
(***************************************************************************)
(* Model of the streaming reply pipeline of jonbot's Discord frontend:     *)
(* DiscordMessageResponder (handlers/discord_message_responder.py) and its *)
(* caller MyDiscordBot.handle_text_message (discord_bot.py).               *)
(*                                                                         *)
(* Python strings are modelled as sequences of one-character strings, so   *)
(* len, startswith, `in`, replace, slicing and concatenation are computed  *)
(* on the characters.  Every step of the model is the code between two     *)
(* suspension points of an asyncio task: asyncio.sleep and the transport   *)
(* calls (Message.reply, Message.edit) suspend; Queue.put and Queue.get on *)
(* an unbounded, non-empty queue do not.                                   *)
(***************************************************************************)
EXTENDS Integers, Sequences, FiniteSets, TLC

\* ------------------------------------------------------------------ bounds
\* number of fragments the producer pushes in one session
MaxPush == 3
\* length of the long fragment (fills a message up to the comfortable ceiling)
LongLen == 1600
\* number of get_reply_messages() calls of the caller
MaxGets == 2
\* number of shutdown() calls of the caller
MaxShutdowns == 2
\* the pacing delay (milliseconds) is followed up to this value
MaxDelay == 720
\* number of audio attachments of the message handle_audio_message is given
MaxAttachments == 1
\* the parameter chunk_size of _run_token_queue_loop (20 when the loop is
\* started by initialize): a chunk of more fragments than this is flushed
chunk_size == 1

\* --------------------------------------------------------------- constants
max_message_length == 2000
\* a ceiling that leaves no headroom under the hard maximum
comfy_without_headroom == max_message_length
\* int(self.max_message_length * 0.8)
comfy_message_length == (max_message_length * 8) \div 10
\* base_delay of _run_token_queue_loop, in milliseconds
base_delay == 500

STOP_STREAMING_TOKEN == <<"S","T","O","P","_","S","T","R","E","A","M","I","N","G">>
bot_name == <<"j","o","n","b","o","t">>
RESPONSE_INCOMING_TEXT == <<"r","e","s","p","o","n","s","e"," ","i","n","c","o","m","i","n","g">>
\* The apostrophe stands for the backquote character of the Python literals.
\* discord_bot.py: the prefix is empty, or "(local - 'nick')\n" on a local run
LocalPrefix == <<"(","l","o","c","a","l"," ","-"," ","'","j","o","n","b","o","t","'",")","\n">>
MessagePrefixes == {<< >>, LocalPrefix}

\* ------------------------------------------------------------ string tools
Min(S) == CHOOSE x \in S : \A y \in S : x <= y

Rep(c, n) == [i \in 1..n |-> c]

\* str.startswith
StartsWith(s, p) == Len(s) >= Len(p) /\ SubSeq(s, 1, Len(p)) = p

\* the start positions of the occurrences of m in s (t is s, evaluated once)
Occurrences(s, m) ==
    UNION {{i \in 1..(Len(t) - Len(m) + 1) :
                t[i] = m[1] /\ SubSeq(t, i, i + Len(m) - 1) = m} : t \in {s}}

\* `m in s`
Contains(s, m) == Occurrences(s, m) /= {}

\* s.replace(m, ""): the non-overlapping occurrences of m, left to right
RECURSIVE Replace(_, _)
Replace(s, m) ==
    LET occ == Occurrences(s, m) IN
    IF occ = {} THEN s
    ELSE LET i == Min(occ) IN
         SubSeq(s, 1, i - 1) \o Replace(SubSeq(s, i + Len(m), Len(s)), m)

\* "".join(chunk)
RECURSIVE Join(_)
Join(ss) == IF ss = << >> THEN << >> ELSE Head(ss) \o Join(Tail(ss))

\* f"{self._bot_name}:"
start_string_to_remove == bot_name \o <<":">>

\* slices that start one character early (an index that counts from one)
Slices_overlapping(s) ==
    [k \in 1..((Len(s) + comfy_message_length - 1) \div comfy_message_length) |->
        SubSeq(s, IF k = 1 THEN 1 ELSE (k - 1) * comfy_message_length,
               IF k * comfy_message_length < Len(s) THEN k * comfy_message_length ELSE Len(s))]

\* range(0, len(input_chunk), comfy_message_length) and the slices taken at it
Slices(s) ==
    [k \in 1..((Len(s) + comfy_message_length - 1) \div comfy_message_length) |->
        SubSeq(s, (k - 1) * comfy_message_length + 1,
               IF k * comfy_message_length < Len(s) THEN k * comfy_message_length ELSE Len(s))]

ContinuingFrom == <<"c","o","n","t","i","n","u","i","n","g"," ","f","r","o","m",":"," ","\n","\n"," ",">"," ">>
SeedTail == <<" ","\n","\n">>
ContinuedIn == <<"\n","\n"," ","'","c","o","n","t","i","n","u","e","d"," ","i","n"," ","n","e","x","t"," ","m","e","s","s","a","g","e",":","'","\n"," ">>

\* discord.Message.jump_url: https://discord.com/channels/<guild>/<channel>/<id>,
\* the three ids being snowflakes of 19 digits; the last digit tells the message
UrlBase == <<"h","t","t","p","s",":","/","/","d","i","s","c","o","r","d",".","c","o","m","/","c","h","a","n","n","e","l","s","/">>
Digit(n) == <<"0","1","2","3","4","5","6","7","8","9">>[(n % 10) + 1]
jump_url(id) ==
    UrlBase \o Rep("7", 19) \o <<"/">> \o Rep("8", 19) \o <<"/">> \o Rep("9", 18) \o <<Digit(id)>>

\* f"{self.message_prefix}continuing from: \n\n > {chunk} \n\n"
new_message_initial_content(prefix, slice) == prefix \o ContinuingFrom \o slice \o SeedTail

\* f"\n\n `continued in next message:`\n {new_message.jump_url}"
continued_in_next_message(id) == ContinuedIn \o jump_url(id)

\* --------------------------------------------------------------- fragments
\* The fragments a producer pushes: a plain one, one that starts with the bot's
\* name, one that ends with the termination marker, and a long one.
\* the fragment handle_text_message pushes when the streaming request fails
ErrorNotice ==
    <<" "," ","-","-"," "," ","\n","!","!","!","\n",">"," ","'","O","h"," ","n","o","!"," ","A","n"," ","e","r","r","o","r"," ","w","h","i","l","e"," ","s","t","r","e","a","m","i","n","g"," ","r","e","p","l","y",".",".",".","'">>

Tokens == {"a", "name", "stop", "long"}

TokenText(t) ==
    CASE t = "a" -> <<"a">>
      [] t = "name" -> start_string_to_remove
      [] t = "stop" -> <<"h","e","l","l","o"," ">> \o STOP_STREAMING_TOKEN
      [] t = "long" -> Rep("x", LongLen)
      [] t = "marker" -> STOP_STREAMING_TOKEN
      [] t = "notice" -> ErrorNotice

\* a fragment that is no string (None, a number), which add_token_to_queue
\* enqueues like any other
MalformedToken == "malformed"

\* "".join(chunk) raises TypeError when an item of the chunk is no string
join_raises(ts) == \E k \in 1..Len(ts) : ts[k] = MalformedToken

\* "".join(chunk), the chunk holding fragments
RECURSIVE JoinTokens(_)
JoinTokens(ts) == IF ts = << >> THEN << >> ELSE TokenText(Head(ts)) \o JoinTokens(Tail(ts))

\* ------------------------------------------------------------------- state
VARIABLES
    message_prefix,        \* self.message_prefix
    message_content,       \* self.message_content
    reply_message,         \* self._reply_message: the index of the message in msgs
    reply_messages,        \* self._reply_messages: a list of such indexes
    full_message_content,  \* self._full_message_content
    done,                  \* self.done
    token_queue,           \* self._token_queue
    loop_task,             \* self.loop_task: where the task of _run_token_queue_loop is
    chunk,                 \* the local chunk of _run_token_queue_loop
    delay,                 \* the local delay of _run_token_queue_loop, in milliseconds
    w_pc,                  \* the transport call add_text_to_reply_message awaits
    w_chunks,              \* handle_message_length_overflow: the slices not yet sent
    w_stop,                \* the local stop_now of add_text_to_reply_message
    new_message,           \* handle_message_length_overflow: the local new_message
    msgs,                  \* the messages of the surface, and the objects that hold them
    inflight,              \* the transport call awaited by the loop task
    temp_file,             \* whether the file of _send_full_text_as_attachment exists
    calls,                 \* the transport calls issued so far
    caller,                \* where the caller of the responder is
    pushed,                \* the fragments pushed so far
    applied,               \* the fragments passed to add_text_to_reply_message so far
    idle_polls,            \* the number of polls in a row that found the queue empty
    d_pc,                  \* the transport call a direct call of add_text_to_reply_message awaits
    d_chunks,              \* the slices not yet sent by the direct call
    d_stop,                \* the local stop_now of the direct call
    d_new_message,         \* the local new_message of the direct call
    d_inflight,            \* the transport call awaited by the caller of the direct call
    attachments,           \* handle_audio_message: the audio attachments taken up so far
    shutdown_calls,        \* the number of shutdown() calls so far
    get_calls              \* the number of get_reply_messages() calls so far

responderVars == <<message_prefix, message_content, reply_message, reply_messages,
                   full_message_content, done>>
loopVars == <<loop_task, chunk, delay>>
writerVars == <<w_pc, w_chunks, w_stop, new_message>>
surfaceVars == <<msgs, inflight, temp_file, calls>>
callerVars == <<caller, pushed, shutdown_calls, get_calls>>
directVars == <<d_pc, d_chunks, d_stop, d_new_message, d_inflight, attachments>>
vars == <<responderVars, token_queue, loopVars, writerVars, surfaceVars, callerVars,
          applied, idle_polls, directVars>>

NoCall == [op |-> "none", target |-> 0, payload |-> << >>]

\* __init__ followed by initialize(): the reply is created with the initial
\* content and the loop task is started
Init ==
    /\ message_prefix \in MessagePrefixes
    /\ message_content = message_prefix
    /\ reply_message = 1
    /\ reply_messages = << >>
    /\ full_message_content = << >>
    /\ done = FALSE
    /\ token_queue = << >>
    /\ loop_task = "sleep1"
    /\ chunk = << >>
    /\ delay = base_delay
    /\ w_pc = "none"
    /\ w_chunks = << >>
    /\ w_stop = FALSE
    /\ new_message = 0
    /\ msgs = << [parent |-> 0, content |-> RESPONSE_INCOMING_TEXT,
                  shown |-> RESPONSE_INCOMING_TEXT, files |-> << >>] >>
    /\ inflight = NoCall
    /\ temp_file = FALSE
    /\ calls = << >>
    /\ caller = "streaming"
    /\ pushed = << >>
    /\ applied = << >>
    /\ idle_polls = 0
    /\ d_pc = "none"
    /\ d_chunks = << >>
    /\ d_stop = FALSE
    /\ d_new_message = 0
    /\ d_inflight = NoCall
    /\ attachments = 0
    /\ shutdown_calls = 0
    /\ get_calls = 0

\* ------------------------------------------------- add_text_to_reply_message
\* the name strip of add_text_to_reply_message
strip_bot_name(c) ==
    IF StartsWith(c, start_string_to_remove) THEN Replace(c, start_string_to_remove) ELSE c

\* the marker strip of add_text_to_reply_message
strip_stop_token(c) ==
    IF Contains(c, STOP_STREAMING_TOKEN) THEN Replace(c, STOP_STREAMING_TOKEN) ELSE c

\* a transcript that is appended to after the marker strip
transcript_after_marker_strip(c1, c2) == c2

\* `self._full_message_content += chunk`: the chunk as it is after the name
\* strip (c1) and before the marker strip (which gives c2)
transcript_chunk(c1, c2) == c1

\* a writer that shows every chunk, an empty one too
shows_every_chunk(c2) == FALSE

\* `if not chunk == ""` of add_text_to_reply_message: nothing is shown of a
\* chunk that is empty after the strips
nothing_to_show(c2) == c2 = << >>

\* a pagination test that paginates a chunk that just fits
overflows_at_ceiling(content, c) == Len(content) + Len(c) >= comfy_message_length

\* the pagination test of add_text_to_reply_message
overflows(content, c) == Len(content) + Len(c) > comfy_message_length

\* an attachment test that holds for a single message
needs_attachment_single(rms) == Len(rms) >= 1

\* `if len(self._reply_messages) > 1` of _run_token_queue_loop
needs_attachment(rms) == Len(rms) > 1

\* The end of add_text_to_reply_message and what its caller does next.  Called
\* from inside the loop (ret = "flush") the loop clears its chunk and sleeps;
\* called after the loop (ret = "final") the task sends the attachment when the
\* list rms holds more than one message, and ends.  cur is the current message,
\* full the transcript and ch the chunk of the loop.
Return(ret, stop, rms, cur, full, ch) ==
    /\ done' = (done \/ stop)
    /\ w_pc' = "none"
    /\ w_chunks' = << >>
    /\ w_stop' = FALSE
    /\ IF ret = "flush"
       THEN /\ loop_task' = "sleep1"
            /\ chunk' = << >>
            /\ inflight' = NoCall
            /\ temp_file' = temp_file
       ELSE /\ chunk' = ch
            /\ IF needs_attachment(rms)
               THEN /\ loop_task' = "attach"
                    /\ temp_file' = TRUE
                    /\ inflight' = [op |-> "upload", target |-> cur, payload |-> full]
               ELSE /\ loop_task' = "finished"
                    /\ temp_file' = temp_file
                    /\ inflight' = NoCall

\* add_text_to_reply_message(c) up to its first transport call, called by the
\* loop task with ret and ch as in Return
add_text_to_reply_message(c, ret, ch) ==
    \E c1 \in {strip_bot_name(c)} : \E c2 \in {strip_stop_token(c1)} :
    LET stop_now == Contains(c1, STOP_STREAMING_TOKEN)
        full == full_message_content \o transcript_chunk(c1, c2)
    IN  /\ full_message_content' = full
        /\ UNCHANGED <<message_prefix, reply_message, reply_messages, msgs, new_message>>
        /\ IF nothing_to_show(c2)
           THEN /\ message_content' = message_content
                /\ Return(ret, stop_now, reply_messages, reply_message, full, ch)
           ELSE /\ UNCHANGED <<done, temp_file>>
                /\ loop_task' = ret
                /\ chunk' = ch
                /\ w_stop' = stop_now
                /\ IF overflows(message_content, c2)
                   THEN /\ message_content' = message_content
                        /\ w_chunks' = Slices(c2)
                        /\ w_pc' = "reply"
                        /\ inflight' = [op |-> "create", target |-> reply_message,
                                        payload |-> new_message_initial_content(
                                                        message_prefix, Slices(c2)[1])]
                   ELSE /\ message_content' = message_content \o c2
                        /\ w_chunks' = << >>
                        /\ w_pc' = "edit"
                        /\ inflight' = [op |-> "edit", target |-> reply_message,
                                        payload |-> message_content \o c2]

\* the transport calls issued by a step of the loop task
LogCall ==
    calls' = IF inflight'.op = "none" THEN calls
             ELSE Append(calls, [op |-> inflight'.op, target |-> inflight'.target,
                                 len |-> Len(inflight'.payload)])

\* ------------------------------------------------------ _run_token_queue_loop
\* a delay that does not grow
Grow_without_growth(d) == d

\* delay *= 1.2; a delay that would pass MaxDelay is kept as it is, so that an
\* idle loop goes on polling in the model as it does in the code
Grow(d) == IF (d * 12) \div 10 > MaxDelay THEN d ELSE (d * 12) \div 10

\* base_delay multiplied by 1.2 once for each of k polls
RECURSIVE Pace(_)
Pace(k) == IF k = 0 THEN base_delay ELSE (Pace(k - 1) * 12) \div 10

\* the polls in a row that found the queue empty are counted as far as the
\* delay is followed
CountIdle(k) == IF Pace(k + 1) > MaxDelay THEN k ELSE k + 1

\* "".join(chunk) raises in the loop task: the exception ends the task, and the
\* chunk ch, a local of the task, is gone with it
JoinFail(ch) ==
    /\ loop_task' = "failed"
    /\ chunk' = ch
    /\ UNCHANGED <<responderVars, writerVars, msgs, inflight, temp_file, applied>>

\* a flush test that holds for a chunk at the threshold
flush_at_threshold(ch) == Len(ch) >= chunk_size

\* `if len(chunk) > chunk_size` of _run_token_queue_loop
exceeds_chunk_size(ch) == Len(ch) > chunk_size

\* The loop wakes from asyncio.sleep(delay): it goes on to the second sleep when
\* the queue is empty, and otherwise drains the queue into the chunk and
\* flushes the chunk when it holds more than chunk_size fragments.
LoopWake ==
    /\ loop_task = "sleep1"
    /\ IF token_queue = << >>
       THEN /\ loop_task' = "sleep2"
            /\ delay' = Grow(delay)
            /\ idle_polls' = CountIdle(idle_polls)
            /\ UNCHANGED <<responderVars, token_queue, chunk, writerVars, msgs,
                           inflight, temp_file, applied>>
       ELSE LET ch == chunk \o token_queue IN
            /\ token_queue' = << >>
            /\ delay' = base_delay
            /\ idle_polls' = 0
            /\ IF exceeds_chunk_size(ch)
               THEN IF join_raises(ch)
                    THEN JoinFail(ch)
                    ELSE /\ applied' = applied \o ch
                         /\ add_text_to_reply_message(JoinTokens(ch), "flush", ch)
               ELSE /\ chunk' = ch
                    /\ UNCHANGED <<responderVars, loop_task, writerVars, msgs,
                                   inflight, temp_file, applied>>
    /\ LogCall
    /\ UNCHANGED callerVars
    /\ UNCHANGED directVars

\* a loop that leaves on done without passing its chunk on
LoopIdleWake_without_flush ==
    /\ loop_task = "sleep2"
    /\ IF done
       THEN /\ Return("final", FALSE, reply_messages, reply_message,
                      full_message_content, chunk)
            /\ UNCHANGED <<message_prefix, message_content, reply_message,
                           reply_messages, full_message_content, new_message,
                           msgs, applied>>
       ELSE /\ loop_task' = "sleep1"
            /\ UNCHANGED <<responderVars, chunk, writerVars, msgs, inflight,
                           temp_file, applied>>
    /\ LogCall
    /\ UNCHANGED <<token_queue, delay, callerVars>>
    /\ UNCHANGED idle_polls
    /\ UNCHANGED directVars

\* a loop that does not look at done after its second sleep
LoopIdleWake_ignoring_done ==
    /\ loop_task = "sleep2"
    /\ loop_task' = "sleep1"
    /\ UNCHANGED <<responderVars, chunk, writerVars, msgs, inflight, temp_file,
                   applied>>
    /\ LogCall
    /\ UNCHANGED <<token_queue, delay, callerVars>>
    /\ UNCHANGED idle_polls
    /\ UNCHANGED directVars

\* The loop wakes from asyncio.sleep(base_delay): it leaves the loop when done
\* is set, and then passes the chunk to add_text_to_reply_message.
LoopIdleWake ==
    /\ loop_task = "sleep2"
    /\ IF done
       THEN IF join_raises(chunk)
            THEN JoinFail(chunk)
            ELSE /\ applied' = applied \o chunk
                 /\ add_text_to_reply_message(JoinTokens(chunk), "final", chunk)
       ELSE /\ loop_task' = "sleep1"
            /\ UNCHANGED <<responderVars, chunk, writerVars, msgs, inflight,
                           temp_file, applied>>
    /\ LogCall
    /\ UNCHANGED <<token_queue, delay, callerVars>>
    /\ UNCHANGED idle_polls
    /\ UNCHANGED directVars

\* self._reply_message.edit(content=self.message_content) of
\* add_text_to_reply_message returns
EditDone ==
    /\ w_pc = "edit"
    /\ msgs' = [msgs EXCEPT ![inflight.target].shown = inflight.payload]
    /\ Return(loop_task, w_stop, reply_messages, reply_message, full_message_content, chunk)
    /\ LogCall
    /\ UNCHANGED <<message_prefix, message_content, reply_message, reply_messages,
                   full_message_content, token_queue, delay, new_message,
                   callerVars, applied>>
    /\ UNCHANGED idle_polls
    /\ UNCHANGED directVars

\* a pagination that leaves the old message the current one
reply_message_stays(old, new) == old

\* `self._reply_message = new_message` of handle_message_length_overflow
next_reply_message(old, new) == new

\* self._reply_message.reply(...) of handle_message_length_overflow returns the
\* new message; the footer is added to the content and the edit is issued
ReplyDone ==
    /\ w_pc = "reply"
    /\ LET id == Len(msgs) + 1
           content == message_content \o continued_in_next_message(id)
       IN /\ msgs' = Append(msgs, [parent |-> inflight.target, content |-> inflight.payload,
                                   shown |-> inflight.payload, files |-> << >>])
          /\ new_message' = id
          /\ message_content' = content
          /\ inflight' = [op |-> "edit", target |-> reply_message, payload |-> content]
    /\ w_pc' = "ov_edit"
    /\ LogCall
    /\ UNCHANGED <<message_prefix, reply_message, reply_messages, full_message_content,
                   done, token_queue, loopVars, w_chunks, w_stop, temp_file,
                   callerVars, applied>>
    /\ UNCHANGED idle_polls
    /\ UNCHANGED directVars

\* the edit of handle_message_length_overflow returns: the new message becomes
\* the current one, and the next slice is sent or the overflow ends
OverflowEditDone ==
    /\ w_pc = "ov_edit"
    /\ LET seed == new_message_initial_content(message_prefix, Head(w_chunks))
           rms == Append(reply_messages, reply_message)
       IN /\ message_content' = seed
          \* _add_reply_message_to_list, before self._reply_message is set
          /\ msgs' = [msgs EXCEPT ![inflight.target].shown = inflight.payload,
                                  ![reply_message].content = seed]
          /\ reply_messages' = rms
          /\ reply_message' = next_reply_message(reply_message, new_message)
          /\ IF Len(w_chunks) > 1
             THEN /\ w_chunks' = Tail(w_chunks)
                  /\ w_pc' = "reply"
                  /\ inflight' = [op |-> "create", target |-> new_message,
                                  payload |-> new_message_initial_content(
                                                  message_prefix, w_chunks[2])]
                  /\ UNCHANGED <<done, loopVars, w_stop, temp_file>>
             ELSE /\ Return(loop_task, w_stop, rms, new_message, full_message_content, chunk)
                  /\ delay' = delay
    /\ LogCall
    /\ UNCHANGED <<message_prefix, full_message_content, token_queue, new_message,
                   callerVars, applied>>
    /\ UNCHANGED idle_polls
    /\ UNCHANGED directVars

\* self._reply_message.edit(files=[file]) of _send_full_text_as_attachment
\* returns; the finally clause deletes the file and the task ends
AttachDone ==
    /\ loop_task = "attach"
    /\ msgs' = [msgs EXCEPT ![inflight.target].files = <<inflight.payload>>]
    /\ temp_file' = FALSE
    /\ inflight' = NoCall
    /\ loop_task' = "finished"
    /\ UNCHANGED <<responderVars, token_queue, chunk, delay, writerVars, calls,
                   callerVars, applied>>
    /\ UNCHANGED idle_polls
    /\ UNCHANGED directVars

\* a failure that leaves the file of _send_full_text_as_attachment behind
TransportFail_without_cleanup ==
    /\ inflight.op /= "none"
    /\ loop_task' = "failed"
    /\ inflight' = NoCall
    /\ w_pc' = "none"
    /\ UNCHANGED <<responderVars, token_queue, chunk, delay, w_chunks, w_stop,
                   new_message, msgs, temp_file, calls, callerVars, applied>>
    /\ UNCHANGED idle_polls
    /\ UNCHANGED directVars

\* the transport call awaited by the loop task raises: the exception leaves
\* handle_message_length_overflow, add_text_to_reply_message and
\* _send_full_text_as_attachment (whose finally clause deletes the file) and
\* ends the task
TransportFail ==
    /\ inflight.op /= "none"
    /\ loop_task' = "failed"
    /\ inflight' = NoCall
    /\ temp_file' = FALSE
    /\ w_pc' = "none"
    /\ UNCHANGED <<responderVars, token_queue, chunk, delay, w_chunks, w_stop,
                   new_message, msgs, calls, callerVars, applied>>
    /\ UNCHANGED idle_polls
    /\ UNCHANGED directVars

\* -------------------------------------------------------------- the caller
\* add_token_to_queue(token), called while the reply is streamed
Push(t) ==
    /\ caller = "streaming"
    /\ Len(pushed) < MaxPush
    /\ token_queue' = Append(token_queue, t)
    /\ pushed' = Append(pushed, t)
    /\ UNCHANGED <<responderVars, loopVars, writerVars, surfaceVars, caller,
                   shutdown_calls, get_calls, applied>>
    /\ UNCHANGED idle_polls
    /\ UNCHANGED directVars

\* a shutdown() that runs the end of the loop again when the task has ended
Shutdown_rerun ==
    /\ caller \in {"streaming", "returned"}
    /\ shutdown_calls < MaxShutdowns
    /\ done' = TRUE
    /\ shutdown_calls' = shutdown_calls + 1
    /\ caller' = "joining"
    /\ loop_task' = IF loop_task = "finished" THEN "sleep2" ELSE loop_task
    /\ UNCHANGED <<message_prefix, message_content, reply_message, reply_messages,
                   full_message_content, token_queue, chunk, delay, writerVars,
                   surfaceVars, pushed, get_calls, applied>>
    /\ UNCHANGED idle_polls
    /\ UNCHANGED directVars

\* a shutdown() that writes the content to the current message itself
Shutdown_flushing ==
    /\ caller \in {"streaming", "returned"}
    /\ shutdown_calls < MaxShutdowns
    /\ done' = TRUE
    /\ shutdown_calls' = shutdown_calls + 1
    /\ caller' = "joining"
    /\ inflight' = [op |-> "edit", target |-> reply_message, payload |-> message_content]
    /\ LogCall
    /\ UNCHANGED <<message_prefix, message_content, reply_message, reply_messages,
                   full_message_content, token_queue, loopVars, writerVars,
                   msgs, temp_file, pushed, get_calls, applied>>
    /\ UNCHANGED idle_polls
    /\ UNCHANGED directVars

\* shutdown() up to `await self.loop_task`
Shutdown ==
    /\ caller \in {"streaming", "returned"}
    /\ shutdown_calls < MaxShutdowns
    /\ done' = TRUE
    /\ shutdown_calls' = shutdown_calls + 1
    /\ caller' = "joining"
    /\ UNCHANGED <<message_prefix, message_content, reply_message, reply_messages,
                   full_message_content, token_queue, loopVars, writerVars,
                   surfaceVars, pushed, get_calls, applied>>
    /\ UNCHANGED idle_polls
    /\ UNCHANGED directVars

\* a join that does not wait for the task
join_without_wait(task) == TRUE

\* `await self.loop_task` is over once the task has ended
join_returns(task) == task \in {"finished", "failed"}

\* a join that returns normally whatever became of the task
join_result_swallowed(task) == "returned"

\* awaiting a task that ended with an exception raises the exception
join_result(task) == IF task = "failed" THEN "raised" ELSE "returned"

\* `await self.loop_task` returns, or raises what the task raised
ShutdownReturn ==
    /\ caller = "joining"
    /\ join_returns(loop_task)
    /\ caller' = join_result(loop_task)
    /\ UNCHANGED <<responderVars, token_queue, loopVars, writerVars, surfaceVars,
                   pushed, shutdown_calls, get_calls, applied>>
    /\ UNCHANGED idle_polls
    /\ UNCHANGED directVars

\* get_reply_messages(): _add_reply_message_to_list, then the list.  The callers
\* call it right after initialize(), before the reply is streamed
\* (handle_text_message), and after shutdown() has returned.
GetReplyMessages ==
    /\ \/ caller = "streaming" /\ pushed = << >>
       \/ caller = "returned"
    /\ get_calls < MaxGets
    /\ msgs' = [msgs EXCEPT ![reply_message].content = message_content]
    /\ reply_messages' = Append(reply_messages, reply_message)
    /\ get_calls' = get_calls + 1
    /\ UNCHANGED <<message_prefix, message_content, reply_message, full_message_content,
                   done, token_queue, loopVars, writerVars, inflight, temp_file, calls,
                   caller, pushed, shutdown_calls, applied>>
    /\ UNCHANGED idle_polls
    /\ UNCHANGED directVars

Next ==
    \/ LoopWake
    \/ LoopIdleWake
    \/ EditDone
    \/ ReplyDone
    \/ OverflowEditDone
    \/ AttachDone
    \/ TransportFail
    \/ \E t \in Tokens : Push(t)
    \/ Shutdown
    \/ ShutdownReturn
    \/ GetReplyMessages

Spec == Init /\ [][Next]_vars

\* add_token_to_queue(token) with a token that is no string
\* the fragments of a short answer, and the marker as a fragment of its own
QuietTokens == {"a", "name", "marker"}

\* the callback of handle_text_message pushes a fragment of a short answer
PushQuiet == \E t \in QuietTokens : Push(t)

\* the session of a short answer: no fragment is long enough to paginate
QuietNext ==
    \/ LoopWake
    \/ LoopIdleWake
    \/ EditDone
    \/ TransportFail
    \/ PushQuiet
    \/ Shutdown
    \/ ShutdownReturn
    \/ GetReplyMessages

QuietSpec == Init /\ [][QuietNext]_vars

\* The streaming request of handle_text_message raises: the handler puts the
\* error notice on the queue and calls shutdown(), which sets done and waits
\* for the loop task.  The queue is unbounded, so put() does not suspend and
\* the loop task takes no step between the put and the assignment of done.
StreamingFails ==
    /\ caller = "streaming"
    /\ shutdown_calls < MaxShutdowns
    /\ token_queue' = Append(token_queue, "notice")
    /\ pushed' = Append(pushed, "notice")
    /\ done' = TRUE
    /\ shutdown_calls' = shutdown_calls + 1
    /\ caller' = "joining"
    /\ UNCHANGED <<message_prefix, message_content, reply_message, reply_messages,
                   full_message_content, loopVars, writerVars, surfaceVars,
                   get_calls, applied>>
    /\ UNCHANGED idle_polls
    /\ UNCHANGED directVars

\* the session of handle_text_message, the failure of its request included
ErrorNext ==
    \/ LoopWake
    \/ LoopIdleWake
    \/ EditDone
    \/ ReplyDone
    \/ OverflowEditDone
    \/ AttachDone
    \/ TransportFail
    \/ \E t \in Tokens : Push(t)
    \/ StreamingFails
    \/ Shutdown
    \/ ShutdownReturn
    \/ GetReplyMessages

ErrorSpec == Init /\ [][ErrorNext]_vars

PushMalformed == Push(MalformedToken)

\* The session with a producer that also pushes fragments that are no strings;
\* the transport does not fail.
MalformedNext ==
    \/ LoopWake
    \/ LoopIdleWake
    \/ EditDone
    \/ ReplyDone
    \/ OverflowEditDone
    \/ AttachDone
    \/ \E t \in Tokens : Push(t)
    \/ PushMalformed
    \/ Shutdown
    \/ ShutdownReturn
    \/ GetReplyMessages

MalformedSpec == Init /\ [][MalformedNext]_vars

\* ------------------------------------------------------ handle_audio_message
\* f"Transcribing audio from user `{message.author}`\n"
TranscribingAudio == <<"T","r","a","n","s","c","r","i","b","i","n","g"," ","a","u","d","i","o"," ","f","r","o","m"," ","u","s","e","r"," ","'","u","'","\n">>
\* f"File URL: {attachment.url}\n\n"
FileUrl == <<"F","i","l","e"," ","U","R","L",":"," ","h","t","t","p","s",":","/","/","c","d","n",".","d","i","s","c","o","r","d","a","p","p",".","c","o","m","/","a",".","o","g","g","\n","\n">>
TranscribedTextHead == <<"T","r","a","n","s","c","r","i","b","e","d"," ","T","e","x","t",":","\n",">"," ">>
TranscribedTextTail == <<"\n","\n">>

\* reply_message_content when the n-th attachment is taken up
RECURSIVE reply_message_content(_)
reply_message_content(n) ==
    IF n = 0 THEN TranscribingAudio ELSE reply_message_content(n - 1) \o FileUrl

\* response['text'] of the voice-to-text request: a few words, or a long speech
Transcripts == {"short", "long"}

\* f"Transcribed Text:\n> {response['text']}\n\n"
transcribed_text(r) ==
    TranscribedTextHead \o (IF r = "short" THEN <<"h","i">> ELSE Rep("x", LongLen))
        \o TranscribedTextTail

\* handle_audio_message on a message in a thread, up to the for loop: the
\* responder is initialized with the transcription notice as initial content
AudioInit ==
    /\ message_prefix \in MessagePrefixes
    /\ message_content = message_prefix
    /\ reply_message = 1
    /\ reply_messages = << >>
    /\ full_message_content = << >>
    /\ done = FALSE
    /\ token_queue = << >>
    /\ loop_task = "sleep1"
    /\ chunk = << >>
    /\ delay = base_delay
    /\ w_pc = "none"
    /\ w_chunks = << >>
    /\ w_stop = FALSE
    /\ new_message = 0
    /\ msgs = << [parent |-> 0, content |-> TranscribingAudio,
                  shown |-> TranscribingAudio, files |-> << >>] >>
    /\ inflight = NoCall
    /\ temp_file = FALSE
    /\ calls = << >>
    /\ caller = "attachment"
    /\ pushed = << >>
    /\ applied = << >>
    /\ idle_polls = 0
    /\ d_pc = "none"
    /\ d_chunks = << >>
    /\ d_stop = FALSE
    /\ d_new_message = 0
    /\ d_inflight = NoCall
    /\ attachments = 0
    /\ shutdown_calls = 0
    /\ get_calls = 0

\* the transport call issued by a step of the direct call
DirectLogCall ==
    calls' = IF d_inflight'.op = "none" THEN calls
             ELSE Append(calls, [op |-> d_inflight'.op, target |-> d_inflight'.target,
                                 len |-> Len(d_inflight'.payload)])

\* The end of a direct call of add_text_to_reply_message and what
\* handle_audio_message does next: after the call of line 258 it awaits the
\* voice-to-text request, after the call of line 275 it calls shutdown()
\* (line 278), which sets done and joins the loop task.
DirectReturn(phase, stop) ==
    /\ d_pc' = "none"
    /\ d_chunks' = << >>
    /\ d_stop' = FALSE
    /\ d_inflight' = NoCall
    /\ IF phase = "writing_url"
       THEN /\ caller' = "requesting"
            /\ done' = (done \/ stop)
            /\ shutdown_calls' = shutdown_calls
       ELSE /\ caller' = "joining"
            /\ done' = TRUE
            /\ shutdown_calls' = shutdown_calls + 1

\* add_text_to_reply_message(c) up to its first transport call, called by
\* handle_audio_message itself; phase tells which of its two calls it is
direct_add_text_to_reply_message(c, phase) ==
    \E c1 \in {strip_bot_name(c)} : \E c2 \in {strip_stop_token(c1)} :
    LET stop_now == Contains(c1, STOP_STREAMING_TOKEN) IN
        /\ full_message_content' = full_message_content \o transcript_chunk(c1, c2)
        /\ UNCHANGED <<message_prefix, reply_message, reply_messages, msgs, d_new_message>>
        /\ IF nothing_to_show(c2)
           THEN /\ message_content' = message_content
                /\ DirectReturn(phase, stop_now)
           ELSE /\ UNCHANGED <<done, shutdown_calls>>
                /\ caller' = phase
                /\ d_stop' = stop_now
                /\ IF overflows(message_content, c2)
                   THEN /\ message_content' = message_content
                        /\ d_chunks' = Slices(c2)
                        /\ d_pc' = "reply"
                        /\ d_inflight' = [op |-> "create", target |-> reply_message,
                                          payload |-> new_message_initial_content(
                                                          message_prefix, Slices(c2)[1])]
                   ELSE /\ message_content' = message_content \o c2
                        /\ d_chunks' = << >>
                        /\ d_pc' = "edit"
                        /\ d_inflight' = [op |-> "edit", target |-> reply_message,
                                          payload |-> message_content \o c2]
        /\ DirectLogCall

\* the for loop takes up the next audio attachment and calls
\* add_text_to_reply_message(reply_message_content) (line 258)
AudioAddUrl ==
    /\ caller \in {"attachment", "returned"}
    /\ attachments < MaxAttachments
    /\ shutdown_calls = attachments
    /\ attachments' = attachments + 1
    /\ direct_add_text_to_reply_message(reply_message_content(attachments + 1), "writing_url")
    /\ UNCHANGED <<token_queue, loopVars, writerVars, inflight, temp_file, pushed,
                   get_calls, applied, idle_polls>>

\* the voice-to-text request returns and handle_audio_message calls
\* add_text_to_reply_message(chunk=transcribed_text) (line 275)
AudioAddTranscript(r) ==
    /\ caller = "requesting"
    /\ direct_add_text_to_reply_message(transcribed_text(r), "writing_text")
    /\ UNCHANGED <<token_queue, loopVars, writerVars, inflight, temp_file, pushed,
                   get_calls, applied, idle_polls, attachments>>

\* the edit of the direct call returns
DirectEditDone ==
    /\ d_pc = "edit"
    /\ msgs' = [msgs EXCEPT ![d_inflight.target].shown = d_inflight.payload]
    /\ DirectReturn(caller, d_stop)
    /\ UNCHANGED <<message_prefix, message_content, reply_message, reply_messages,
                   full_message_content, token_queue, loopVars, writerVars, inflight,
                   temp_file, calls, pushed, get_calls, applied, idle_polls,
                   d_new_message, attachments>>

\* the reply of the direct call's handle_message_length_overflow returns
DirectReplyDone ==
    /\ d_pc = "reply"
    /\ LET id == Len(msgs) + 1
           content == message_content \o continued_in_next_message(id)
       IN /\ msgs' = Append(msgs, [parent |-> d_inflight.target, content |-> d_inflight.payload,
                                   shown |-> d_inflight.payload, files |-> << >>])
          /\ d_new_message' = id
          /\ message_content' = content
          /\ d_inflight' = [op |-> "edit", target |-> reply_message, payload |-> content]
    /\ d_pc' = "ov_edit"
    /\ DirectLogCall
    /\ UNCHANGED <<message_prefix, reply_message, reply_messages, full_message_content,
                   done, token_queue, loopVars, writerVars, inflight, temp_file,
                   callerVars, applied, idle_polls, d_chunks, d_stop, attachments>>

\* the edit of the direct call's handle_message_length_overflow returns
DirectOverflowEditDone ==
    /\ d_pc = "ov_edit"
    /\ LET seed == new_message_initial_content(message_prefix, Head(d_chunks)) IN
          /\ message_content' = seed
          /\ msgs' = [msgs EXCEPT ![d_inflight.target].shown = d_inflight.payload,
                                  ![reply_message].content = seed]
          /\ reply_messages' = Append(reply_messages, reply_message)
          /\ reply_message' = next_reply_message(reply_message, d_new_message)
          /\ IF Len(d_chunks) > 1
             THEN /\ d_chunks' = Tail(d_chunks)
                  /\ d_pc' = "reply"
                  /\ d_inflight' = [op |-> "create", target |-> d_new_message,
                                    payload |-> new_message_initial_content(
                                                    message_prefix, d_chunks[2])]
                  /\ UNCHANGED <<done, caller, shutdown_calls, d_stop>>
             ELSE DirectReturn(caller, d_stop)
    /\ DirectLogCall
    /\ UNCHANGED <<message_prefix, full_message_content, token_queue, loopVars,
                   writerVars, inflight, temp_file, pushed, get_calls, applied,
                   idle_polls, d_new_message, attachments>>

\* the transport call of the direct call raises: the exception leaves
\* add_text_to_reply_message and handle_audio_message, which logs and re-raises
DirectFail ==
    /\ d_inflight.op /= "none"
    /\ d_inflight' = NoCall
    /\ d_pc' = "none"
    /\ caller' = "raised"
    /\ UNCHANGED <<responderVars, token_queue, loopVars, writerVars, surfaceVars,
                   pushed, shutdown_calls, get_calls, applied, idle_polls,
                   d_chunks, d_stop, d_new_message, attachments>>

\* handle_audio_message and the loop task of its responder: no fragment is
\* pushed, the handler writes through add_text_to_reply_message itself, calls
\* shutdown() after the transcript and again after the for loop (line 291), and
\* then get_reply_messages()
AudioNext ==
    \/ LoopWake
    \/ LoopIdleWake
    \/ AttachDone
    \/ TransportFail
    \/ AudioAddUrl
    \/ \E r \in Transcripts : AudioAddTranscript(r)
    \/ DirectEditDone
    \/ DirectReplyDone
    \/ DirectOverflowEditDone
    \/ DirectFail
    \/ Shutdown
    \/ ShutdownReturn
    \/ GetReplyMessages

AudioSpec == AudioInit /\ [][AudioNext]_vars

TypeOK ==
    /\ loop_task \in {"sleep1", "sleep2", "flush", "final", "attach", "finished", "failed"}
    /\ w_pc \in {"none", "edit", "reply", "ov_edit"}
    /\ caller \in {"streaming", "joining", "returned", "raised",
                  "attachment", "writing_url", "requesting", "writing_text"}
    /\ d_pc \in {"none", "edit", "reply", "ov_edit"}
    /\ done \in BOOLEAN
    /\ reply_message \in 1..Len(msgs)

\* asyncio runs every task that can run: a sleep ends, a transport call returns
\* or raises, and the join of shutdown() returns once the task has ended.  The
\* producer and the caller are free to push and to call shutdown() or not.
TransportReturn == EditDone \/ ReplyDone \/ OverflowEditDone \/ AttachDone \/ TransportFail

\* the session when no transport call fails
ReliableNext ==
    \/ LoopWake
    \/ LoopIdleWake
    \/ EditDone
    \/ ReplyDone
    \/ OverflowEditDone
    \/ AttachDone
    \/ \E t \in Tokens : Push(t)
    \/ Shutdown
    \/ ShutdownReturn
    \/ GetReplyMessages

\* a transport call that does not fail returns
ReliableTransportReturn == EditDone \/ ReplyDone \/ OverflowEditDone \/ AttachDone

\* The event loop runs every task that can run, and a transport call that does
\* not fail returns; nothing is required of the producer and of the callers.
ReliableFairSpec ==
    /\ Init
    /\ [][ReliableNext]_vars
    /\ WF_vars(LoopWake)
    /\ WF_vars(LoopIdleWake)
    /\ WF_vars(ReliableTransportReturn)
    /\ WF_vars(ShutdownReturn)

FairSpec ==
    /\ Spec
    /\ WF_vars(LoopWake)
    /\ WF_vars(LoopIdleWake)
    /\ WF_vars(TransportReturn)
    /\ WF_vars(ShutdownReturn)

\* ------------------------------------------------------- what a reader sees
Max(S) == CHOOSE x \in S : \A y \in S : x >= y

EndsWith(s, p) == Len(s) >= Len(p) /\ SubSeq(s, Len(s) - Len(p) + 1, Len(s)) = p

\* a content without the continuation footer that ends it
WithoutFooter(s) ==
    LET occ == Occurrences(s, ContinuedIn) IN
    IF occ = {} THEN s ELSE SubSeq(s, 1, Max(occ) - 1)

\* a content without the message prefix that starts it
WithoutPrefix(s, p) == IF StartsWith(s, p) THEN SubSeq(s, Len(p) + 1, Len(s)) ELSE s

\* a content without the continuation prefix, and without the blank lines that
\* close the quoted slice
WithoutContinuation(s) ==
    IF StartsWith(s, ContinuingFrom)
    THEN LET r == SubSeq(s, Len(ContinuingFrom) + 1, Len(s))
             occ == Occurrences(r, SeedTail)
         IN  IF occ = {} THEN r
             ELSE SubSeq(r, 1, Min(occ) - 1) \o SubSeq(r, Min(occ) + Len(SeedTail), Len(r))
    ELSE s

\* the text of the i-th message of the chain as displayed, stripped; the initial
\* content of the first message is a placeholder, not text of the reply
VisibleText(i) ==
    IF i = 1 /\ msgs[i].shown = RESPONSE_INCOMING_TEXT THEN << >>
    ELSE WithoutContinuation(WithoutPrefix(WithoutFooter(msgs[i].shown), message_prefix))

DeliveredText == Join([i \in 1..Len(msgs) |-> VisibleText(i)])

\* the pushed fragments in push order, the termination marker removed
PushedText == Replace(JoinTokens(pushed), STOP_STREAMING_TOKEN)

\* ------------------------------------------------------------------ claims
\* C1 (as claimed): once the loop has reached DONE, the contents of the output
\* messages in chain order, continuation prefixes and footers removed, are
\* the pushed fragments in push order with the termination marker removed.
C1_OrderPreservation == (loop_task = "finished") => (DeliveredText = PushedText)

\* C2 (as claimed): when shutdown() returns, all pushes having been made before
\* it was called, every pushed fragment has been applied to the message
\* writer, and n one-character fragments are delivered as n characters.
C2_NoLoss ==
    (caller = "returned") =>
        /\ applied = pushed
        /\ (\A k \in 1..Len(pushed) : pushed[k] = "a") => (Len(DeliveredText) = Len(pushed))

\* C3 (as claimed): every pushed fragment is passed to the message writer, and
\* passed once; so when the loop task has ended none is left in the queue and
\* the fragments passed are the fragments pushed, also when the termination
\* flag was set with fragments still queued.
C3_ExactlyOnce ==
    (loop_task = "finished") => (token_queue = << >> /\ applied = pushed)

\* C4 (as claimed): once a fragment that holds the termination marker is pushed,
\* the loop reaches DONE (the task ends) with no call of shutdown(), the
\* marker removed from what is delivered.
C4_MarkerTerminates ==
    (\E k \in 1..Len(pushed) : pushed[k] = "stop")
        ~> (loop_task \in {"finished", "failed"} /\ ~Contains(DeliveredText, STOP_STREAMING_TOKEN))

\* the chunk of the loop as long as the loop holds it
Unflushed == IF loop_task \in {"sleep1", "sleep2"} THEN chunk ELSE << >>

\* the calls of one kind issued so far
CallsOf(op) == {k \in 1..Len(calls) : calls[k].op = op}

\* C5: the content of every output message but the last, footer included, and
\* the payload of every edit call, are at most max_message_length long.
C5_LengthInvariant ==
    /\ \A i \in 1..(Len(msgs) - 1) : Len(msgs[i].shown) <= max_message_length
    /\ (inflight.op = "edit") => (Len(inflight.payload) <= max_message_length)
    /\ \A k \in CallsOf("edit") : calls[k].len <= max_message_length

\* a message that was filled beyond the comfortable ceiling carries its footer
C5_Witness ==
    \E i \in 1..(Len(msgs) - 1) :
        /\ Len(msgs[i].shown) > comfy_message_length + Len(ContinuedIn)
        /\ EndsWith(msgs[i].shown, continued_in_next_message(i + 1))

\* the text add_text_to_reply_message appends when it is passed the fragments ts
TextOf(ts) == strip_stop_token(strip_bot_name(JoinTokens(ts)))

\* C6: a non-empty chunk passed to the message writer creates a new message
\* exactly when len(message_content) + len(chunk) is greater than the
\* comfortable ceiling; a chunk no longer than the ceiling is one slice, every
\* slice creates one message, and a message that stops being the current one
\* was last edited to a content that ends with the continuation footer.
C6_PaginationTrigger ==
    [][ /\ (applied' /= applied) =>
            \E text \in {TextOf(SubSeq(applied', Len(applied) + 1, Len(applied')))} :
                (text /= << >>) =>
                    /\ (inflight'.op = "create") <=>
                           (Len(message_content) + Len(text) > comfy_message_length)
                    /\ (inflight'.op = "edit") <=>
                           (Len(message_content) + Len(text) <= comfy_message_length)
                    /\ (inflight'.op = "create" /\ Len(text) <= comfy_message_length) =>
                           (Len(w_chunks') = 1)
        /\ (Len(msgs') /= Len(msgs)) =>
               (w_pc = "reply" /\ w_pc' = "ov_edit" /\ Len(msgs') = Len(msgs) + 1)
        /\ (reply_message' /= reply_message) =>
               /\ w_pc = "ov_edit"
               /\ reply_message' = Len(msgs)
               /\ Len(w_chunks) = 1 => w_pc' = "none"
               /\ Len(w_chunks) > 1 => (w_pc' = "reply" /\ w_chunks' = Tail(w_chunks))
               /\ calls[Len(calls)] = [op |-> "edit", target |-> reply_message,
                                       len |-> Len(msgs'[reply_message].shown)]
               /\ EndsWith(msgs'[reply_message].shown,
                           continued_in_next_message(reply_message'))
      ]_vars

\* a chunk no longer than the ceiling has paginated once, the task has ended
C6_Witness ==
    /\ loop_task = "finished"
    /\ Len(msgs) = 2
    /\ Cardinality(CallsOf("create")) = 1
    /\ EndsWith(msgs[1].shown, continued_in_next_message(2))

\* C7: a second shutdown(), called after the first has returned, issues no
\* transport call and leaves the messages, the list of messages, the current
\* message, its content and the transcript as they are.
C7_IdempotentShutdown ==
    [][ (\/ (shutdown_calls >= 1 /\ shutdown_calls' = shutdown_calls + 1)
         \/ (shutdown_calls >= 2 /\ caller = "joining")) =>
            UNCHANGED <<calls, inflight, msgs, reply_messages, reply_message,
                        message_content, full_message_content, applied>>
      ]_vars

\* the second shutdown() has returned on a session that has paginated
C7_Witness == shutdown_calls = 2 /\ caller = "returned" /\ Len(msgs) > 1

C9_ShutdownJoins ==
    (caller = "returned") =>
        /\ loop_task = "finished"
        /\ inflight = NoCall
        /\ w_pc = "none"
        /\ applied \o token_queue = pushed
        /\ temp_file = FALSE
        /\ \A k \in CallsOf("upload") : msgs[calls[k].target].files /= << >>

\* shutdown() has returned after a trailing flush and an upload
C9_Witness ==
    /\ caller = "returned"
    /\ chunk /= << >>
    /\ CallsOf("upload") /= {}

\* C10: the task passes the chunk the loop still holds to the message writer
\* when it leaves the loop, before the attachment step: while the loop runs
\* the fragments passed and held are the fragments drained, after it nothing
\* is held back; the upload is the last transport call and there is at most
\* one.
C10_FlushThenFinalize ==
    /\ applied \o Unflushed \o token_queue = pushed
    /\ Cardinality(CallsOf("upload")) <= 1
    /\ \A k \in CallsOf("upload") : k = Len(calls)
    /\ (loop_task \in {"attach", "finished"}) => (w_pc = "none")

\* the upload was issued after the flush of a chunk below the threshold
C10_Witness ==
    /\ loop_task = "attach"
    /\ Len(chunk) \in 1..chunk_size
    /\ Len(calls) >= 2
    /\ calls[Len(calls) - 1].op = "edit"
    /\ calls[Len(calls)].op = "upload"

\* the list a call of get_reply_messages() returns when every message of the
\* session is in it once, in the order of creation
CreatedMessages == [i \in 1..Len(msgs) |-> i]

\* C11 (as claimed): when the task has ended, get_reply_messages() having been
\* called before shutdown() or not, the transcript was uploaded exactly when
\* the session has opened more than one message, and it was uploaded to the
\* last message, the file holding the full transcript.
C11_AttachmentIffPaginated ==
    (loop_task = "finished" /\ get_calls <= 1) =>
        /\ (CallsOf("upload") /= {}) <=> (Len(msgs) > 1)
        /\ \A k \in CallsOf("upload") :
               /\ calls[k].target = Len(msgs)
               /\ msgs[Len(msgs)].files = <<full_message_content>>

\* C12 (as claimed): every call of get_reply_messages() returns the messages
\* created so far, each once, in the order of creation.
C12_ReplyMessagesOnce ==
    [][ (get_calls' = get_calls + 1) => (reply_messages' = CreatedMessages) ]_vars

\* the message writer has been passed a chunk that holds the termination marker
MarkerApplied == \E k \in 1..Len(applied) : applied[k] = "stop"

\* C16 (as claimed): once the message writer has applied a chunk that holds the
\* termination marker, it is passed no further non-empty chunk.
C16_StopAfterMarker ==
    [][ (MarkerApplied /\ applied' /= applied) =>
            (TextOf(SubSeq(applied', Len(applied) + 1, Len(applied'))) = << >>) ]_vars

\* C19 (as claimed): the loop is left, after the second wait of an idle cycle,
\* only in a state where the termination flag is set and the queue is empty.
C19_DoneGuard ==
    [][ (loop_task = "sleep2" /\ loop_task' \notin {"sleep1", "sleep2"}) =>
            (done /\ token_queue = << >>) ]_vars

\* C13: a transport call that fails ends the loop task with the exception, and
\* shutdown() then raises it: shutdown() has never returned normally on a
\* session with a failed call, and it raises nothing but such a failure.
C13_FailureSurfaces ==
    /\ (loop_task = "failed") => (caller /= "returned")
    /\ (caller = "raised") => (loop_task = "failed" /\ calls /= << >>)

\* shutdown() has raised the failure of an edit
C13_Witness ==
    /\ caller = "raised"
    /\ calls[Len(calls)].op = "edit"

\* C14: the temporary file exists only while the upload is awaited; when the
\* attachment step has ended, by success or by failure, it is gone.  After a
\* failed upload the task has ended with the exception, nothing is attached
\* and the upload was the last transport call: no message is edited again.
C14_GuaranteedCleanup ==
    /\ temp_file => (loop_task = "attach" /\ inflight.op = "upload")
    /\ (loop_task \in {"finished", "failed"}) => (~temp_file /\ inflight = NoCall)
    /\ (loop_task = "failed" /\ CallsOf("upload") /= {}) =>
           /\ calls[Len(calls)].op = "upload"
           /\ \A i \in 1..Len(msgs) : msgs[i].files = << >>
           /\ caller \in {"streaming", "joining", "raised"}

\* the upload has failed, and shutdown() has raised the failure
C14_Witness ==
    /\ loop_task = "failed"
    /\ CallsOf("upload") /= {}
    /\ caller = "raised"
    /\ ~temp_file

\* C18: a transport call is issued only by a step of the loop task, one call a
\* step, and only when no call is in flight or the step is the return of the
\* call in flight; the call in flight is the last call issued.  So at most one
\* call is in flight, whatever pushes and shutdown() calls come in between.
C18_SequentialTransport ==
    [][ /\ (calls' /= calls) =>
               /\ Len(calls') = Len(calls) + 1
               /\ inflight'.op /= "none"
               /\ UNCHANGED <<caller, pushed, shutdown_calls, get_calls>>
               /\ \/ inflight.op = "none"
                  \/ w_pc /= "none" /\ w_pc' /= w_pc
        /\ (inflight'.op /= "none") =>
               (calls'[Len(calls')] = [op |-> inflight'.op, target |-> inflight'.target,
                                       len |-> Len(inflight'.payload)])
      ]_vars

\* the producer has pushed and the caller has called shutdown() while the loop
\* task was between the two transport calls of a pagination
C18_Witness ==
    /\ w_pc = "ov_edit"
    /\ token_queue /= << >>
    /\ caller = "joining"
    /\ Len(calls) >= 2

\* C20: the delay the loop sleeps before a poll is base_delay multiplied by 1.2
\* once for each poll in a row that found the queue empty: base_delay before
\* the first poll and after every poll that drained a fragment.
C20_AdaptivePacing ==
    /\ delay = Pace(idle_polls)
    /\ (loop_task = "flush") => (delay = base_delay)

\* after a poll that drained a fragment had reset the delay, two idle polls
\* in a row have made it base_delay * 1.2 * 1.2
C20_Witness ==
    /\ loop_task = "sleep1"
    /\ applied /= << >>
    /\ idle_polls = 2
    /\ delay = (((base_delay * 12) \div 10) * 12) \div 10

\* the pushed fragments the loop has taken from the queue
Drained == SubSeq(pushed, 1, Len(pushed) - Len(token_queue))

\* the fragments of ts that are strings
WellFormed(ts) == SelectSeq(ts, LAMBDA t : t /= MalformedToken)

\* C15 (as claimed): a fragment that is no string never enters the transcript,
\* and it costs no well-formed fragment: when the task has ended, every
\* well-formed fragment the loop took from the queue has been passed to the
\* message writer.
C15_MalformedRejected ==
    /\ \A k \in 1..Len(applied) : applied[k] /= MalformedToken
    /\ (loop_task \in {"finished", "failed"}) => (applied = WellFormed(Drained))

\* the task of _run_token_queue_loop has not ended
LoopAlive == loop_task \notin {"finished", "failed"}

\* C17 (as claimed): while the loop task is alive, the current content, the
\* transcript, the list of messages and the current message are changed only
\* by steps of the loop task: no step of a caller changes them.
C17_ExclusiveOwnership ==
    [][ (LoopAlive /\ <<message_content, full_message_content, reply_messages,
                        reply_message>>' /=
                      <<message_content, full_message_content, reply_messages,
                        reply_message>>)
            => UNCHANGED <<callerVars, directVars>> ]_vars

\* C21: the chunk is flushed and cleared exactly when it holds more fragments
\* than chunk_size after a poll that drained: a chunk being flushed holds
\* more, the chunk the loop holds while it sleeps holds at most chunk_size and
\* has not been passed on, and the fragments are passed on in the order they
\* were drained.
C21_BatchThreshold ==
    /\ (loop_task \in {"sleep1", "sleep2"}) => (Len(chunk) <= chunk_size)
    /\ (loop_task = "flush") =>
           /\ Len(chunk) > chunk_size
           /\ Len(applied) >= Len(chunk)
           /\ SubSeq(applied, Len(applied) - Len(chunk) + 1, Len(applied)) = chunk
    /\ applied \o Unflushed = Drained

\* the loop sleeps on a chunk at the threshold, an earlier chunk was flushed
C21_Witness ==
    /\ loop_task = "sleep1"
    /\ Len(chunk) = chunk_size
    /\ Len(applied) = chunk_size + 1
    /\ done = FALSE

\* the chunk of fragments a step passes to the message writer
NewlyApplied == SubSeq(applied', Len(applied) + 1, Len(applied'))

\* C22: every chunk passed to the message writer is appended to the transcript
\* as it is after the name strip and before the marker strip, whether it is
\* then appended to the message or paginated, and no other step changes the
\* transcript: the transcript is the chunks in order, name-stripped.
C22_TranscriptInvariant ==
    [][ /\ (applied' /= applied) =>
               (full_message_content' =
                    full_message_content \o strip_bot_name(JoinTokens(NewlyApplied)))
        /\ (applied' = applied) => (full_message_content' = full_message_content)
      ]_vars

\* the transcript holds the marker of a chunk that was paginated
C22_Witness ==
    /\ Len(msgs) > 1
    /\ Contains(full_message_content, STOP_STREAMING_TOKEN)
    /\ Len(full_message_content) > comfy_message_length
    /\ loop_task = "finished"

\* a chunk without the one leading occurrence of the name prefix it starts with
WithoutLeadingEcho(c) ==
    IF StartsWith(c, start_string_to_remove)
    THEN SubSeq(c, Len(start_string_to_remove) + 1, Len(c))
    ELSE c

\* C23 (as claimed): of a chunk that starts with the name prefix the message
\* writer removes that one leading occurrence and keeps the rest, later
\* occurrences included; it leaves any other chunk as it is.
C23_LeadingEchoOnly ==
    [][ (applied' /= applied) =>
            (full_message_content' =
                 full_message_content \o WithoutLeadingEcho(JoinTokens(NewlyApplied)))
      ]_vars

\* the edits of handle_message_length_overflow issued so far for the chunk the
\* message writer is paginating: one for each slice that was sent
EditsOfChunk ==
    IF w_pc = "ov_edit" THEN Len(Slices(TextOf(chunk))) - Len(w_chunks) + 1
    ELSE IF w_pc = "reply" THEN Len(Slices(TextOf(chunk))) - Len(w_chunks)
    ELSE 0

\* C24 (as claimed): every edit of a content carries the whole current content
\* of the message it targets, and a chunk passed to the message writer gives
\* at most one edit, also when it is paginated and when it is longer than the
\* comfortable ceiling.
C24_OneFullEditPerChunk ==
    /\ (inflight.op = "edit") =>
           (inflight.payload = message_content /\ inflight.target = reply_message)
    /\ EditsOfChunk <= 1

\* C25 (as claimed): when a pagination completes, the content of the new
\* current message is the seed content (prefix, continuation prefix, slice)
\* and is at most comfy_message_length long.
C25_SeedWithinCeiling ==
    [][ (reply_message' /= reply_message) =>
            /\ message_content' = new_message_initial_content(message_prefix, Head(w_chunks))
            /\ Len(message_content') <= comfy_message_length
      ]_vars

\* C30 (as claimed): when a message is added to the list of messages, by a
\* pagination or by get_reply_messages(), the content recorded on it is the
\* content displayed for it (for a message never edited: the content
\* accumulated for it, the message prefix).
C30_RecordedContent ==
    [][ (reply_messages' /= reply_messages) =>
            \E m \in {reply_messages'[Len(reply_messages')]} :
                \/ msgs'[m].content = msgs'[m].shown
                \/ /\ msgs'[m].shown = RESPONSE_INCOMING_TEXT
                   /\ msgs'[m].content = message_prefix
      ]_vars

\* the calls issued so far that edit a message: its content or its files
EditCalls == CallsOf("edit") \cup CallsOf("upload")

\* C26: an edit of a content or of the files targets the current message, which
\* is the last message created (during a pagination: the last but one, until
\* its footer is written), and the targets of the edits issued never go back
\* in the chain: no edit targets a message that has stopped being current.
C26_FrozenPredecessors ==
    /\ (inflight.op \in {"edit", "upload"}) => (inflight.target = reply_message)
    /\ (loop_task /= "failed") =>
           (reply_message = IF w_pc = "ov_edit" THEN Len(msgs) - 1 ELSE Len(msgs))
    /\ \A k, l \in EditCalls : (k < l) => (calls[k].target <= calls[l].target)

\* after a pagination the new current message is being edited
C26_Witness ==
    /\ w_pc = "edit"
    /\ Len(msgs) >= 2
    /\ inflight.target = Len(msgs)
    /\ \E k \in EditCalls : calls[k].target < Len(msgs)

\* C27: the chunk being paginated is cut into ceil(len/comfy_message_length)
\* slices of 1 to comfy_message_length characters whose concatenation is the
\* chunk; the slices are sent in order, and each slice sent has created one
\* message, seeded with it, as a reply to the message created before it.
C27_OverflowSlicing ==
    /\ \A i \in 2..Len(msgs) : msgs[i].parent = i - 1
    /\ (w_pc \in {"reply", "ov_edit"}) =>
           \E text \in {TextOf(chunk)} : \E all \in {Slices(text)} :
           LET sent == Len(all) - Len(w_chunks)
               created == sent + (IF w_pc = "ov_edit" THEN 1 ELSE 0)
           IN  /\ Len(all) = (Len(text) + comfy_message_length - 1) \div comfy_message_length
               /\ \A k \in 1..Len(all) : Len(all[k]) \in 1..comfy_message_length
               /\ Join(all) = text
               /\ sent >= 0
               /\ w_chunks = SubSeq(all, sent + 1, Len(all))
               /\ created <= Len(msgs) - 1
               /\ \A j \in 1..created :
                      StartsWith(msgs[Len(msgs) - created + j].shown,
                                 new_message_initial_content(message_prefix, all[j]))
               /\ (w_pc = "reply") =>
                      /\ inflight.op = "create"
                      /\ inflight.target = reply_message
                      /\ inflight.payload =
                             new_message_initial_content(message_prefix, Head(w_chunks))

\* the second slice of a chunk longer than the ceiling has created its message
C27_Witness ==
    /\ w_pc = "ov_edit"
    /\ Len(Slices(TextOf(chunk))) = 2
    /\ Len(w_chunks) = 1
    /\ Len(msgs) = 3

\* a step of the loop task that passes a text to add_text_to_reply_message of
\* which nothing is left after the strips: a flush of fragments that join to
\* nothing but the name or markers, or the trailing flush of an empty chunk
AppliesNothing ==
    \/ applied' /= applied /\ TextOf(NewlyApplied) = << >>
    \/ /\ loop_task = "sleep2"
       /\ loop_task' /= loop_task
       /\ done
       /\ chunk = << >>

\* C28: applying a chunk that is empty, or empty after the strips, the trailing
\* flush of an empty chunk included, issues no create and no content edit, and
\* leaves the current message content, the current message, the list of reply
\* messages and the messages of the chain as they were.
C28_NothingPending ==
    [][ AppliesNothing =>
            /\ inflight'.op \notin {"create", "edit"}
            /\ CallsOf("create")' = CallsOf("create")
            /\ CallsOf("edit")' = CallsOf("edit")
            /\ UNCHANGED <<message_content, reply_message, reply_messages, msgs>> ]_vars

\* the loop has ended after applying nothing but a marker, and no call was made
C28_Witness ==
    /\ loop_task = "finished"
    /\ applied /= << >>
    /\ Contains(full_message_content, STOP_STREAMING_TOKEN)
    /\ calls = << >>

\* C29: when no transport call fails and every task that can run does run, a
\* session whose done flag is set (the producer pushes finitely many fragments)
\* has its loop task finish, and a shutdown() that waits for the task returns.
C29_ShutdownTerminates ==
    /\ done ~> (loop_task = "finished")
    /\ (caller = "joining") ~> (caller = "returned")

\* a shutdown() has returned after the loop task applied fragments and finished
C29_Witness ==
    /\ caller = "returned"
    /\ shutdown_calls >= 1
    /\ loop_task = "finished"
    /\ Len(applied) = MaxPush

\* the session is over: shutdown() has returned, the loop task has finished,
\* and every pushed fragment was passed to the writer, none lost and none left
SessionComplete ==
    /\ caller = "returned"
    /\ loop_task = "finished"
    /\ applied = pushed
    /\ token_queue = << >>

\* C31 (as claimed): what a completed session delivers depends on the fragments
\* pushed and not on how the loop grouped them into chunks; so it is what the
\* grouping into one chunk delivers, the name prefix and the marker stripped
\* from the joined fragments, and done is set.
C31_BatchingIndependence ==
    SessionComplete => (DeliveredText = TextOf(pushed) /\ done)

\* the error notice is on the output messages
NoticeRendered == Contains(DeliveredText, ErrorNotice)

\* C32 (as claimed): when the shutdown() called after the error notice was
\* pushed has returned, the notice has been passed to the writer and is on
\* the output messages, wherever the loop was when the notice was pushed.
C32_ErrorNoticeDelivered ==
    (caller = "returned" /\ \E k \in 1..Len(pushed) : pushed[k] = "notice") =>
        /\ \E k \in 1..Len(applied) : applied[k] = "notice"
        /\ NoticeRendered

====
